---- MODULE Spec2Model ----
(***************************************************************************)
(* Figure editor (ImageEditor component) and the document model it saves   *)
(* into (App component).                                                   *)
(*                                                                         *)
(* Handlers are modelled at handler level: an action is enabled whenever   *)
(* the component that owns the handler is mounted, and the handler's own   *)
(* early returns are branches of the action.  The `disabled` attribute of  *)
(* the two AI buttons is kept as a guard, since it is what limits the      *)
(* number of calls in flight.                                              *)
(*                                                                         *)
(* Rasters (data URLs) are abstract values that record where their pixels  *)
(* come from; two rasters are equal iff they hold the same pixels.         *)
(***************************************************************************)
EXTENDS Integers, Sequences, FiniteSets, TLC

VARIABLES
    results,              \* App state.results: the document model
    editingFigures,       \* App editingFigures: the `figures` prop, or NoSession
    currentIndex,         \* ImageEditor state (0-based, as in the source)
    mode,
    adjustments,
    editedSrcs,
    annotations,
    selectedAnnotationId,
    nextAnnId,            \* number of annotation ids drawn so far (Math.random ids)
    isRecreating,
    isGeneratingGraph,
    recreateCall,         \* handleMagicRecreate suspended at its await
    graphCall,            \* handleGenerateGraph suspended at its await
    saves,                \* handleSave runs suspended at an image load
    saveCount,            \* number of handleSave runs started so far
    lastOnSave,           \* the last onSave invocation (observation)
    lastOp,               \* the last handler that ran and the alert it raised
    cropRect,             \* ImageEditor crop rectangle (container space), or NoCrop
    isCropping,
    isDrawing,            \* ImageEditor isDrawing: a stroke is in progress
    renders,              \* renderCanvas runs waiting for their image to load
    preview,              \* what the preview canvas shows
    watch,                \* whether the specification follows the preview canvas
    calc                  \* operands and result of a pixel or coordinate computation

docVars     == <<results, editingFigures>>
sessionVars == <<currentIndex, mode, adjustments, editedSrcs, annotations,
                 selectedAnnotationId, nextAnnId, isRecreating, isGeneratingGraph,
                 cropRect, isCropping, isDrawing>>
asyncVars   == <<recreateCall, graphCall>>
saveVars    == <<saves, saveCount, lastOnSave>>
viewVars    == <<renders, preview>>
vars        == <<results, editingFigures, currentIndex, mode, adjustments,
                 editedSrcs, annotations, selectedAnnotationId, nextAnnId,
                 isRecreating, isGeneratingGraph, recreateCall, graphCall,
                 saves, saveCount, lastOnSave, lastOp, cropRect, isCropping,
                 isDrawing, renders, preview, watch, calc>>

----------------------------------------------------------------------------
(* Bounds of the model *)

MaxAnnotations == 2     \* annotations created in one session
MaxSaves == 2           \* handleSave runs started in one behaviour
MaxPending == 2         \* renderCanvas runs waiting for an image at one time
MaxCropDepth == 1       \* crops taken of a canvas that shows a cropped raster
MaxCaptureDepth == 1    \* captures taken of a canvas that shows a captured raster
MaxUpdates == 2         \* entries of an update list given to saveEditedFigures

----------------------------------------------------------------------------
(* The document: two converted pages; page 0 holds two figures *)

Pages == {0, 1}
PageFigIds(p) == IF p = 0 THEN <<"fig_1", "fig_2">> ELSE <<"fig_3">>
FigIds == {"fig_1", "fig_2", "fig_3"}

SeqToSet(s) == {s[i] : i \in 1..Len(s)}

NoSession == <<>>
NoSelection == 0
NoCall == [active |-> FALSE]
NoAlert == <<>>
NoCrop == [set |-> FALSE]
NoPreview == [kind |-> "blank"]
NoCalc == [op |-> "none"]

(* Rasters *)
NoSrc == [kind |-> "none"]
Crop(f) == [kind |-> "crop", fig |-> f]
AiResult(f) == [kind |-> "ai", fig |-> f]
GraphResult(f) == [kind |-> "graph", fig |-> f]

(* Adjustments *)
NoAdj == [kind |-> "none"]
Identity == [brightness |-> 100, contrast |-> 100, saturate |-> 100,
             red |-> 100, green |-> 100, blue |-> 100, gamma |-> 1]
AdjKeys == {"brightness", "gamma"}
AdjValues(key) == IF key = "gamma" THEN {1, 2} ELSE {100, 150}

Modes == {"view", "crop", "draw", "graph", "text", "adjust"}
\* Spec runs no crop, draw, graph or adjust-panel handler: of the tool modes
\* only "text" is read by a handler it runs
ModesOfSpec == {"view", "text"}

(* Alert texts *)
RecreateFailedMsg == <<"Failed", "to", "recreate", "figure(s).", "Please", "try", "again.">>
GraphFailedMsg == <<"Failed", "to", "generate", "graph.", "Please", "try", "again.">>
NoEquationMsg == <<"Please", "enter", "at", "least", "one", "equation.">>
AppliedMsg == <<"Adjustments", "applied", "to", "all", "selected", "figures.">>

(* lastOp names the last handler when it raised an alert or ended an       *)
(* asynchronous call; the plain synchronous handlers all record PlainOp.   *)
NoFig == "none"
OpOn(name, msg, f) == [name |-> name, alert |-> msg, fig |-> f]
Op(name) == OpOn(name, NoAlert, NoFig)
OpAlert(name, msg) == OpOn(name, msg, NoFig)
PlainOp == Op("ui")

----------------------------------------------------------------------------
(* Derived values of a render of ImageEditor *)

Mounted == editingFigures # NoSession
figures == editingFigures
currentFigure == figures[currentIndex + 1]
AdjOf(adjs, f) == IF adjs[f] = NoAdj THEN Identity ELSE adjs[f]
currentAdj == AdjOf(adjustments, currentFigure.id)
currentAnnotations == annotations[currentFigure.id]
SrcOf(srcs, fig) == IF srcs[fig.id] = NoSrc THEN fig.src ELSE srcs[fig.id]

Min_Second(a, b) == b
Min(a, b) == IF a < b THEN a ELSE b
Max(a, b) == IF a > b THEN a ELSE b

----------------------------------------------------------------------------
(* Initial state: the document after page conversion, no editor open *)

FigureResult(f) == [id |-> f, originalSrc |-> Crop(f), currentSrc |-> Crop(f)]

InitResults ==
    [p \in Pages |->
        [figures |-> [i \in 1..Len(PageFigIds(p)) |-> FigureResult(PageFigIds(p)[i])],
         html    |-> [f \in SeqToSet(PageFigIds(p)) |-> Crop(f)]]]

FreshSession ==
    /\ currentIndex = 0
    /\ mode = "view"
    /\ adjustments = [f \in FigIds |-> NoAdj]
    /\ editedSrcs = [f \in FigIds |-> NoSrc]
    /\ annotations = [f \in FigIds |-> <<>>]
    /\ selectedAnnotationId = NoSelection
    /\ nextAnnId = 0
    /\ isRecreating = FALSE
    /\ isGeneratingGraph = FALSE
    /\ cropRect = NoCrop
    /\ isCropping = FALSE
    /\ isDrawing = FALSE

FreshSessionNext ==
    /\ currentIndex' = 0
    /\ mode' = "view"
    /\ adjustments' = [f \in FigIds |-> NoAdj]
    /\ editedSrcs' = [f \in FigIds |-> NoSrc]
    /\ annotations' = [f \in FigIds |-> <<>>]
    /\ selectedAnnotationId' = NoSelection
    /\ nextAnnId' = 0
    /\ isRecreating' = FALSE
    /\ isGeneratingGraph' = FALSE
    /\ cropRect' = NoCrop
    /\ isCropping' = FALSE
    /\ isDrawing' = FALSE

InitProgram ==
    /\ results = InitResults
    /\ editingFigures = NoSession
    /\ FreshSession
    /\ recreateCall = NoCall
    /\ graphCall = NoCall
    /\ saves = <<>>
    /\ saveCount = 0
    /\ lastOnSave = [called |-> FALSE]
    /\ lastOp = Op("init")
    /\ renders = {}
    /\ preview = NoPreview

Init ==
    /\ InitProgram
    /\ watch = FALSE
    /\ calc = NoCalc

----------------------------------------------------------------------------
(* ImageEditor: useEffect(renderCanvas) *)

\* What a bake or a render draws of an annotation: strokeText/fillText
Label(ann) == [x |-> ann.x, y |-> ann.y, text |-> ann.text, color |-> ann.color,
               size |-> ann.size]

\* The values a renderCanvas run closes over
SnapshotOf(figs, idx, srcs, adjs, anns, sel) ==
    LET fig == figs[idx + 1]
    IN  [src |-> SrcOf(srcs, fig), adj |-> AdjOf(adjs, fig.id),
         anns |-> anns[fig.id], sel |-> sel]

\* The snapshot of the current render
Snapshot ==
    SnapshotOf(figures, currentIndex, editedSrcs, adjustments, annotations,
               selectedAnnotationId)

\* The canvas after img.onload of a run has drawn
Drawn(r) ==
    [kind |-> "drawn", src |-> r.src, adj |-> r.adj,
     labels |-> [i \in 1..Len(r.anns) |-> Label(r.anns[i])],
     boxed |-> {i \in 1..Len(r.anns) : r.anns[i].id = r.sel}]

\* The effect after a commit that changed one of its dependencies: a new
\* Image is created and its src set
RenderEffect ==
    IF watch /\ editingFigures' # NoSession
    THEN /\ renders' = renders \cup
                {SnapshotOf(editingFigures', currentIndex', editedSrcs',
                            adjustments', annotations', selectedAnnotationId')}
         /\ Cardinality(renders') <= MaxPending
         /\ preview' = preview
    ELSE UNCHANGED viewVars

\* The effect after a commit that changed no dependency: it runs when
\* currentAnnotations is the fresh [] of `annotations[id] || []`
RerenderEffect ==
    IF annotations'[editingFigures'[currentIndex' + 1].id] = <<>>
    THEN RenderEffect
    ELSE UNCHANGED viewVars

\* A data URL the browser can decode
Decodable(src) == src.kind # "empty"

\* img.onload of a pending run
RenderImageLoads(r) ==
    /\ r \in renders
    /\ Decodable(r.src)
    /\ renders' = renders \ {r}
    /\ preview' = Drawn(r)
    /\ lastOp' = lastOp
    /\ UNCHANGED <<docVars, sessionVars, asyncVars, saveVars, watch, calc>>

\* The image of a pending run cannot be decoded: onload never fires
RenderImageFails(r) ==
    /\ r \in renders
    /\ ~Decodable(r.src)
    /\ renders' = renders \ {r}
    /\ preview' = preview
    /\ lastOp' = lastOp
    /\ UNCHANGED <<docVars, sessionVars, asyncVars, saveVars, watch, calc>>

----------------------------------------------------------------------------
(* App: opening and closing the editor *)

\* Array.prototype.findIndex on a figure list: 1-based position, 0 when absent
FindIndex(figs, id) ==
    LET hits == {i \in 1..Len(figs) : figs[i].id = id}
    IN  IF hits = {} THEN 0 ELSE CHOOSE i \in hits : \A j \in hits : i <= j

FigureToEdit(f, pageIndex) ==
    [id |-> f.id, pageIndex |-> pageIndex, src |-> f.currentSrc,
     originalSrc |-> f.originalSrc]

\* The editor unmounts: its state is dropped; suspended handlers live on
Unmount ==
    /\ FreshSessionNext
    /\ recreateCall' = IF recreateCall.active
                       THEN [recreateCall EXCEPT !.mounted = FALSE] ELSE NoCall
    /\ graphCall' = IF graphCall.active
                    THEN [graphCall EXCEPT !.mounted = FALSE] ELSE NoCall
    /\ renders' = {}
    /\ preview' = NoPreview

HandleEditFigure(pageIndex, figureId) ==
    /\ ~Mounted
    /\ LET page == results[pageIndex]
           i == FindIndex(page.figures, figureId)
       IN  /\ i # 0
           /\ editingFigures' = <<FigureToEdit(page.figures[i], pageIndex)>>
    /\ lastOp' = PlainOp
    /\ UNCHANGED <<results, sessionVars, asyncVars, saveVars>>
    /\ UNCHANGED <<watch, calc>>
    /\ RenderEffect

HandleBatchEdit(activeTab) ==
    /\ ~Mounted
    /\ LET page == results[activeTab]
       IN  /\ Len(page.figures) > 0
           /\ editingFigures' = [i \in 1..Len(page.figures) |->
                                    FigureToEdit(page.figures[i], activeTab)]
    /\ lastOp' = PlainOp
    /\ UNCHANGED <<results, sessionVars, asyncVars, saveVars>>
    /\ UNCHANGED <<watch, calc>>
    /\ RenderEffect

\* The X button of the editor: onClose = () => setEditingFigures(null)
OnClose ==
    /\ Mounted
    /\ editingFigures' = NoSession
    /\ Unmount
    /\ saves' = [k \in 1..Len(saves) |-> [saves[k] EXCEPT !.closed = TRUE]]
    /\ lastOp' = PlainOp
    /\ UNCHANGED <<results, saveCount, lastOnSave>>
    /\ UNCHANGED <<watch, calc>>

----------------------------------------------------------------------------
(* ImageEditor: navigation, tool mode, adjustments *)

SetCurrentIndex(idx) ==
    /\ Mounted
    /\ currentIndex' = idx
    /\ UNCHANGED <<docVars, mode, adjustments, editedSrcs, annotations,
                   selectedAnnotationId, nextAnnId, isRecreating,
                   isGeneratingGraph, asyncVars, saveVars>>
    /\ UNCHANGED <<cropRect, isCropping, isDrawing>>
    /\ UNCHANGED <<watch, calc>>
    /\ RenderEffect

Previous ==
    /\ SetCurrentIndex(Max(0, currentIndex - 1))
    /\ lastOp' = PlainOp

NextFigure ==
    /\ SetCurrentIndex(Min(Len(figures) - 1, currentIndex + 1))
    /\ lastOp' = PlainOp

JumpTo(idx) ==
    /\ SetCurrentIndex(idx)
    /\ lastOp' = PlainOp

SetMode(m) ==
    /\ Mounted
    /\ mode' = m
    /\ lastOp' = PlainOp
    /\ UNCHANGED <<docVars, currentIndex, adjustments, editedSrcs, annotations,
                   selectedAnnotationId, nextAnnId, isRecreating,
                   isGeneratingGraph, asyncVars, saveVars>>
    /\ UNCHANGED <<cropRect, isCropping, isDrawing>>
    /\ UNCHANGED <<watch, calc>>
    /\ RerenderEffect

UpdateAdjustment(key, value) ==
    /\ Mounted
    /\ adjustments' = [adjustments EXCEPT ![currentFigure.id] =
                          [AdjOf(adjustments, currentFigure.id) EXCEPT ![key] = value]]
    /\ lastOp' = PlainOp
    /\ UNCHANGED <<docVars, currentIndex, mode, editedSrcs, annotations,
                   selectedAnnotationId, nextAnnId, isRecreating,
                   isGeneratingGraph, asyncVars, saveVars>>
    /\ UNCHANGED <<cropRect, isCropping, isDrawing>>
    /\ UNCHANGED <<watch, calc>>
    /\ RenderEffect

\* The three state writes of switchToSource
SwitchedSrcs(srcs, f, newSource) == [srcs EXCEPT ![f] = newSource]
SwitchedAdjs_ResetsAll(adjs, f) == [g \in DOMAIN adjs |-> Identity]
SwitchedAdjs(adjs, f) == [adjs EXCEPT ![f] = Identity]

SwitchToSource(newSource) ==
    /\ Mounted
    /\ editedSrcs' = SwitchedSrcs(editedSrcs, currentFigure.id, newSource)
    /\ adjustments' = SwitchedAdjs(adjustments, currentFigure.id)
    /\ lastOp' = PlainOp
    /\ UNCHANGED <<docVars, currentIndex, mode, annotations,
                   selectedAnnotationId, nextAnnId, isRecreating,
                   isGeneratingGraph, asyncVars, saveVars>>
    /\ UNCHANGED <<cropRect, isCropping, isDrawing>>
    /\ UNCHANGED <<watch, calc>>
    /\ RenderEffect

AppliedToAll_ActiveOnly(adjs, figs, current) ==
    [f \in DOMAIN adjs |-> IF f = currentFigure.id THEN current ELSE adjs[f]]

\* newAdjs of applyFiltersToAll
AppliedToAll(adjs, figs, current) ==
    [f \in DOMAIN adjs |->
        IF \E i \in 1..Len(figs) : figs[i].id = f THEN current ELSE adjs[f]]

ApplyFiltersToAll ==
    /\ Mounted
    /\ adjustments' = AppliedToAll(adjustments, figures, currentAdj)
    /\ lastOp' = OpAlert("applyFiltersToAll", AppliedMsg)
    /\ UNCHANGED <<docVars, currentIndex, mode, editedSrcs, annotations,
                   selectedAnnotationId, nextAnnId, isRecreating,
                   isGeneratingGraph, asyncVars, saveVars>>
    /\ UNCHANGED <<cropRect, isCropping, isDrawing>>
    /\ UNCHANGED <<watch, calc>>
    /\ RenderEffect

----------------------------------------------------------------------------
(* ImageEditor: text annotations *)

ClickPoints == {<<10, 30>>, <<50, 30>>}    \* pointer positions, canvas space
AnnUpdates == {[text |-> "A"]}             \* the text input's onChange

\* ctx.measureText(text).width for the bold font of the given size
TextLen(text) == IF text = "New Label" THEN 9 ELSE 1
TextWidth(text, size) == (TextLen(text) * size) \div 2

Hit(ann, x, y) ==
    /\ x >= ann.x
    /\ x <= ann.x + TextWidth(ann.text, ann.size)
    /\ y >= ann.y - ann.size
    /\ y <= ann.y

\* currentAnnotations.find(...): position of the first hit, 0 when none
ClickedAnn(anns, x, y) ==
    LET hits == {i \in 1..Len(anns) : Hit(anns[i], x, y)}
    IN  IF hits = {} THEN 0 ELSE CHOOSE i \in hits : \A j \in hits : i <= j

NewAnn(id, x, y) ==
    [id |-> id, x |-> x, y |-> y, text |-> "New Label", color |-> "#4f46e5",
     size |-> 24]

HandleCanvasClick(pt) ==
    /\ Mounted
    /\ mode = "text"
    /\ LET c == ClickedAnn(currentAnnotations, pt[1], pt[2])
       IN  IF c # 0
           THEN /\ selectedAnnotationId' = currentAnnotations[c].id
                /\ UNCHANGED <<annotations, nextAnnId>>
           ELSE /\ nextAnnId < MaxAnnotations
                /\ nextAnnId' = nextAnnId + 1
                /\ annotations' = [annotations EXCEPT ![currentFigure.id] =
                                      Append(@, NewAnn(nextAnnId + 1, pt[1], pt[2]))]
                /\ selectedAnnotationId' = nextAnnId + 1
    /\ lastOp' = PlainOp
    /\ UNCHANGED <<docVars, currentIndex, mode, adjustments, editedSrcs,
                   isRecreating, isGeneratingGraph, asyncVars, saveVars>>
    /\ UNCHANGED <<cropRect, isCropping, isDrawing>>
    /\ UNCHANGED <<watch, calc>>
    /\ RenderEffect

Merge(ann, updates) ==
    [k \in DOMAIN ann |-> IF k \in DOMAIN updates THEN updates[k] ELSE ann[k]]

UpdateSelectedAnnotation(updates) ==
    /\ Mounted
    /\ IF selectedAnnotationId = NoSelection
       THEN UNCHANGED annotations
       ELSE annotations' = [annotations EXCEPT ![currentFigure.id] =
                [i \in 1..Len(@) |->
                    IF @[i].id = selectedAnnotationId THEN Merge(@[i], updates)
                    ELSE @[i]]]
    /\ lastOp' = PlainOp
    /\ UNCHANGED <<docVars, currentIndex, mode, adjustments, editedSrcs,
                   selectedAnnotationId, nextAnnId, isRecreating,
                   isGeneratingGraph, asyncVars, saveVars>>
    /\ UNCHANGED <<cropRect, isCropping, isDrawing>>
    /\ UNCHANGED <<watch, calc>>
    /\ IF selectedAnnotationId = NoSelection THEN UNCHANGED viewVars ELSE RenderEffect

\* (prev[currentFigure.id] || []).filter(ann => ann.id !== selectedAnnotationId)
WithoutSelected(anns, sel) == SelectSeq(anns, LAMBDA a : a.id # sel)

DeleteSelectedAnnotation ==
    /\ Mounted
    /\ IF selectedAnnotationId = NoSelection
       THEN UNCHANGED <<annotations, selectedAnnotationId>>
       ELSE /\ annotations' = [annotations EXCEPT ![currentFigure.id] =
                                  WithoutSelected(@, selectedAnnotationId)]
            /\ selectedAnnotationId' = NoSelection
    /\ lastOp' = PlainOp
    /\ UNCHANGED <<docVars, currentIndex, mode, adjustments, editedSrcs,
                   nextAnnId, isRecreating, isGeneratingGraph, asyncVars,
                   saveVars>>
    /\ UNCHANGED <<cropRect, isCropping, isDrawing>>
    /\ UNCHANGED <<watch, calc>>
    /\ IF selectedAnnotationId = NoSelection THEN UNCHANGED viewVars ELSE RenderEffect

----------------------------------------------------------------------------
(* ImageEditor: cropping *)

CropPoints == {<<60, 50>>, <<100, 80>>}  \* pointer positions, container space
CanvasScale == 2        \* canvas.width / rect.width, canvas.height / rect.height
CanvasOffset == <<48, 48>>   \* displayed top-left of the canvas in the container (p-12)

\* toDataURL of a canvas of width or height 0: "data:,"
EmptyRaster == [kind |-> "empty"]

\* tempCanvas.toDataURL after drawImage(canvas, sx, sy, sw, sh, 0, 0, |sw|, |sh|)
Cropped(canvas, sx, sy, sw, sh) ==
    IF sw = 0 \/ sh = 0
    THEN EmptyRaster
    ELSE [kind |-> "cropped", of |-> canvas, sx |-> sx, sy |-> sy,
          sw |-> sw, sh |-> sh]

\* Number of crops a raster or a canvas content is built from
RECURSIVE CropDepth(_)
CropDepth(x) ==
    IF x.kind = "cropped" THEN 1 + CropDepth(x.of)
    ELSE IF x.kind = "drawn" THEN CropDepth(x.src)
    ELSE 0

\* onMouseDown of the crop overlay, which is rendered when mode === 'crop'
HandleCropStart(pt) ==
    /\ Mounted
    /\ mode = "crop"
    /\ isCropping' = TRUE
    /\ cropRect' = [set |-> TRUE, x |-> pt[1], y |-> pt[2], w |-> 0, h |-> 0]
    /\ lastOp' = PlainOp
    /\ UNCHANGED <<docVars, currentIndex, mode, adjustments, editedSrcs,
                   annotations, selectedAnnotationId, nextAnnId, isRecreating,
                   isGeneratingGraph, asyncVars, saveVars, watch, calc,
                   isDrawing>>
    /\ RerenderEffect

HandleCropMove(pt) ==
    /\ Mounted
    /\ mode = "crop"
    /\ isCropping
    /\ cropRect.set
    /\ cropRect' = [cropRect EXCEPT !.w = pt[1] - cropRect.x,
                                     !.h = pt[2] - cropRect.y]
    /\ lastOp' = PlainOp
    /\ UNCHANGED <<docVars, currentIndex, mode, adjustments, editedSrcs,
                   annotations, selectedAnnotationId, nextAnnId, isRecreating,
                   isGeneratingGraph, isCropping, asyncVars, saveVars, watch, calc,
                   isDrawing>>
    /\ RerenderEffect

HandleCropEnd ==
    /\ Mounted
    /\ mode = "crop"
    /\ isCropping' = FALSE
    /\ lastOp' = PlainOp
    /\ UNCHANGED <<docVars, currentIndex, mode, adjustments, editedSrcs,
                   annotations, selectedAnnotationId, nextAnnId, isRecreating,
                   isGeneratingGraph, cropRect, asyncVars, saveVars, watch, calc,
                   isDrawing>>
    /\ RerenderEffect

\* The new working raster of executeCrop
CropResult(rect, canvas) ==
    Cropped(canvas, rect.x * CanvasScale, rect.y * CanvasScale,
            rect.w * CanvasScale, rect.h * CanvasScale)

\* The Confirm Crop button, rendered in the overlay while cropRect is set
ExecuteCrop ==
    /\ Mounted
    /\ mode = "crop"
    /\ cropRect.set
    /\ CropDepth(preview) < MaxCropDepth
    /\ editedSrcs' = [editedSrcs EXCEPT ![currentFigure.id] =
                         CropResult(cropRect, preview)]
    /\ mode' = "view"
    /\ cropRect' = NoCrop
    /\ lastOp' = Op("executeCrop")
    /\ UNCHANGED <<docVars, currentIndex, adjustments, annotations,
                   selectedAnnotationId, nextAnnId, isRecreating,
                   isGeneratingGraph, isCropping, asyncVars, saveVars, watch, calc,
                   isDrawing>>
    /\ RenderEffect

----------------------------------------------------------------------------
(* ImageEditor: drawing.  The canvas handlers run in every mode in which   *)
(* the pointer reaches the canvas: in crop mode the overlay covers it.     *)

\* canvas.toDataURL('image/png'): a raster with the pixels the canvas shows
Capture(canvas) ==
    IF canvas.kind = "drawn" /\ canvas.adj = Identity /\ canvas.labels = <<>>
    THEN canvas.src
    ELSE [kind |-> "capture", of |-> canvas]

\* Number of captures a raster or a canvas content is built from
RECURSIVE CaptureDepth(_)
CaptureDepth(x) ==
    IF x.kind = "capture" THEN 1 + CaptureDepth(x.of)
    ELSE IF x.kind = "drawn" THEN CaptureDepth(x.src)
    ELSE IF x.kind \in {"inked", "cropped"} THEN CaptureDepth(x.of)
    ELSE 0

\* onMouseDown (outside text mode) and onTouchStart of the canvas.  draw(e)
\* reads the isDrawing of the render that created the handler, which is
\* false, and returns
StartDrawing ==
    /\ Mounted
    /\ mode \notin {"text", "crop"}
    /\ isDrawing' = IF mode = "draw" THEN TRUE ELSE isDrawing
    /\ lastOp' = PlainOp
    /\ UNCHANGED <<docVars, currentIndex, mode, adjustments, editedSrcs,
                   annotations, selectedAnnotationId, nextAnnId, isRecreating,
                   isGeneratingGraph, cropRect, isCropping, asyncVars,
                   saveVars, watch, calc>>
    /\ IF mode = "draw" THEN RerenderEffect ELSE UNCHANGED viewVars

\* onMouseMove and onTouchMove of the canvas: ctx.filter = 'none', lineTo,
\* stroke
DrawMove ==
    /\ Mounted
    /\ isDrawing
    /\ mode = "draw"
    /\ preview' = IF preview.kind = "inked" THEN preview
                  ELSE [kind |-> "inked", of |-> preview]
    /\ lastOp' = PlainOp
    /\ UNCHANGED <<docVars, sessionVars, asyncVars, saveVars, renders, watch,
                   calc>>

\* onMouseUp, onMouseLeave and onTouchEnd of the canvas
StopDrawing ==
    /\ Mounted
    /\ mode # "crop"
    /\ CaptureDepth(preview) < MaxCaptureDepth
    /\ isDrawing' = FALSE
    /\ editedSrcs' = [editedSrcs EXCEPT ![currentFigure.id] = Capture(preview)]
    /\ lastOp' = Op("stopDrawing")
    /\ UNCHANGED <<docVars, currentIndex, mode, adjustments, annotations,
                   selectedAnnotationId, nextAnnId, isRecreating,
                   isGeneratingGraph, cropRect, isCropping, asyncVars,
                   saveVars, watch, calc>>
    /\ RenderEffect

----------------------------------------------------------------------------
(* ImageEditor: AI recreation and graph generation *)

\* An alert text names a figure when the figure's id is one of its words
Mentions(msg, f) == \E i \in 1..Len(msg) : msg[i] = f

TargetIds(call) == {call.targets[i].id : i \in 1..Len(call.targets)}

\* updates[fig.id] = newSrc
WithResult(updates, f) == [updates EXCEPT ![f] = AiResult(f)]

RecreatedAdjs_NoReset(call) == call.adjs

\* newAdjs: the adjustments of the render that started the call, targets reset
RecreatedAdjs(call) ==
    [f \in DOMAIN call.adjs |-> IF f \in TargetIds(call) THEN Identity ELSE call.adjs[f]]

HandleMagicRecreate(all) ==
    /\ Mounted
    /\ ~isRecreating
    /\ ~recreateCall.active
    /\ isRecreating' = TRUE
    /\ recreateCall' = [active |-> TRUE, mounted |-> TRUE,
                        targets |-> IF all THEN figures ELSE <<currentFigure>>,
                        updates |-> editedSrcs, adjs |-> adjustments, i |-> 1]
    /\ lastOp' = PlainOp
    /\ UNCHANGED <<docVars, currentIndex, mode, adjustments, editedSrcs,
                   annotations, selectedAnnotationId, nextAnnId,
                   isGeneratingGraph, graphCall, saveVars>>
    /\ UNCHANGED <<cropRect, isCropping, isDrawing>>
    /\ UNCHANGED <<watch, calc>>
    /\ RerenderEffect

\* What the handler writes once the loop has ended
RecreateCommit(call, updates) ==
    IF call.mounted
    THEN /\ editedSrcs' = updates
         /\ adjustments' = RecreatedAdjs(call)
         /\ isRecreating' = FALSE
    ELSE UNCHANGED <<editedSrcs, adjustments, isRecreating>>

RecreateFigureResolves ==
    /\ recreateCall.active
    /\ LET f == recreateCall.targets[recreateCall.i].id
           updates == WithResult(recreateCall.updates, f)
       IN  IF recreateCall.i < Len(recreateCall.targets)
           THEN /\ recreateCall' = [recreateCall EXCEPT !.updates = updates,
                                                         !.i = @ + 1]
                /\ UNCHANGED <<editedSrcs, adjustments, isRecreating, lastOp>>
           ELSE /\ recreateCall' = NoCall
                /\ RecreateCommit(recreateCall, updates)
                /\ lastOp' = OpOn("recreateResolved", NoAlert, f)
    /\ UNCHANGED <<docVars, currentIndex, mode, annotations,
                   selectedAnnotationId, nextAnnId, isGeneratingGraph,
                   graphCall, saveVars>>
    /\ UNCHANGED <<cropRect, isCropping, isDrawing>>
    /\ UNCHANGED <<watch, calc>>
    /\ IF recreateCall.mounted /\ recreateCall.i = Len(recreateCall.targets)
       THEN RenderEffect ELSE UNCHANGED viewVars

RecreateAbort_KeepsPartial(call) ==
    /\ isRecreating' = IF call.mounted THEN FALSE ELSE isRecreating
    /\ editedSrcs' = IF call.mounted THEN call.updates ELSE editedSrcs
    /\ UNCHANGED adjustments

\* catch and finally of handleMagicRecreate
RecreateAbort(call) ==
    /\ isRecreating' = IF call.mounted THEN FALSE ELSE isRecreating
    /\ UNCHANGED <<editedSrcs, adjustments>>

RecreateFigureRejects ==
    /\ recreateCall.active
    /\ recreateCall' = NoCall
    /\ RecreateAbort(recreateCall)
    /\ lastOp' = OpOn("recreateRejected", RecreateFailedMsg,
                      recreateCall.targets[recreateCall.i].id)
    /\ UNCHANGED <<docVars, currentIndex, mode, annotations,
                   selectedAnnotationId, nextAnnId, isGeneratingGraph,
                   graphCall, saveVars>>
    /\ UNCHANGED <<cropRect, isCropping, isDrawing>>
    /\ UNCHANGED <<watch, calc>>
    /\ IF recreateCall.mounted THEN RerenderEffect ELSE UNCHANGED viewVars

Equations == {"", " ", "y = x^2"}
Trim(e) == IF e = " " THEN "" ELSE e

HandleGenerateGraph(equations) ==
    /\ Mounted
    /\ ~isGeneratingGraph
    /\ ~graphCall.active
    /\ IF Trim(equations) = ""
       THEN /\ lastOp' = OpAlert("handleGenerateGraph", NoEquationMsg)
            /\ UNCHANGED <<isGeneratingGraph, graphCall>>
       ELSE /\ isGeneratingGraph' = TRUE
            /\ graphCall' = [active |-> TRUE, mounted |-> TRUE,
                             fig |-> currentFigure.id]
            /\ lastOp' = PlainOp
    /\ UNCHANGED <<docVars, currentIndex, mode, adjustments, editedSrcs,
                   annotations, selectedAnnotationId, nextAnnId, isRecreating,
                   recreateCall, saveVars>>
    /\ UNCHANGED <<cropRect, isCropping, isDrawing>>
    /\ UNCHANGED <<watch, calc>>
    /\ IF Trim(equations) = "" THEN UNCHANGED viewVars ELSE RerenderEffect

GraphTarget_Active(call) == currentFigure.id

\* The figure whose entries the graph handler writes
GraphTarget(call) == call.fig

GenerateGraphResolves ==
    /\ graphCall.active
    /\ graphCall' = NoCall
    /\ IF graphCall.mounted
       THEN /\ editedSrcs' = [editedSrcs EXCEPT ![GraphTarget(graphCall)] =
                                 GraphResult(graphCall.fig)]
            /\ adjustments' = [adjustments EXCEPT ![GraphTarget(graphCall)] = Identity]
            /\ mode' = "view"
            /\ isGeneratingGraph' = FALSE
       ELSE UNCHANGED <<editedSrcs, adjustments, mode, isGeneratingGraph>>
    /\ lastOp' = OpOn("graphResolved", NoAlert, graphCall.fig)
    /\ UNCHANGED <<docVars, currentIndex, annotations, selectedAnnotationId,
                   nextAnnId, isRecreating, recreateCall, saveVars>>
    /\ UNCHANGED <<cropRect, isCropping, isDrawing>>
    /\ UNCHANGED <<watch, calc>>
    /\ IF graphCall.mounted THEN RenderEffect ELSE UNCHANGED viewVars

\* catch and finally of handleGenerateGraph
GraphAbort(call) ==
    /\ isGeneratingGraph' = IF call.mounted THEN FALSE ELSE isGeneratingGraph
    /\ UNCHANGED <<editedSrcs, adjustments, mode>>

GenerateGraphRejects ==
    /\ graphCall.active
    /\ graphCall' = NoCall
    /\ GraphAbort(graphCall)
    /\ lastOp' = OpOn("graphRejected", GraphFailedMsg, graphCall.fig)
    /\ UNCHANGED <<docVars, currentIndex, annotations, selectedAnnotationId,
                   nextAnnId, isRecreating, recreateCall, saveVars>>
    /\ UNCHANGED <<cropRect, isCropping, isDrawing>>
    /\ UNCHANGED <<watch, calc>>
    /\ IF graphCall.mounted THEN RerenderEffect ELSE UNCHANGED viewVars

----------------------------------------------------------------------------
(* ImageEditor.handleSave and App.saveEditedFigures *)

\* tempCanvas.toDataURL after drawing src through the filters, the channel
\* and gamma pass and the annotations.  Filters of 100%, no channel pass and
\* no annotation leave the pixels of src.
Bake(src, adj, anns) ==
    IF adj = Identity /\ anns = <<>>
    THEN src
    ELSE [kind |-> "baked", base |-> src, adj |-> adj,
          anns |-> [i \in 1..Len(anns) |-> Label(anns[i])]]

ApplyUpdate_BothSrcs(res, u) ==
    LET page == res[u.pageIndex]
        i == FindIndex(page.figures, u.figureId)
    IN  IF i = 0
        THEN res
        ELSE [res EXCEPT ![u.pageIndex].figures[i] =
                [@ EXCEPT !.currentSrc = u.newSrc, !.originalSrc = u.newSrc]]

ApplyUpdate_AnyPage(res, u) ==
    [p \in Pages |->
        [figures |-> [i \in 1..Len(res[p].figures) |->
                         IF res[p].figures[i].id = u.figureId
                         THEN [res[p].figures[i] EXCEPT !.currentSrc = u.newSrc]
                         ELSE res[p].figures[i]],
         html    |-> [f \in DOMAIN res[p].html |->
                         IF f = u.figureId THEN u.newSrc ELSE res[p].html[f]]]]

\* One update of saveEditedFigures
ApplyUpdate(res, u) ==
    LET page == res[u.pageIndex]
        i == FindIndex(page.figures, u.figureId)
    IN  IF i = 0
        THEN res
        ELSE [res EXCEPT ![u.pageIndex] =
                [figures |-> [page.figures EXCEPT ![i].currentSrc = u.newSrc],
                 html    |-> IF u.figureId \in DOMAIN page.html
                             THEN [page.html EXCEPT ![u.figureId] = u.newSrc]
                             ELSE page.html]]

RECURSIVE ApplyUpdates(_, _, _)
ApplyUpdates(res, updates, i) ==
    IF i > Len(updates) THEN res
    ELSE ApplyUpdates(ApplyUpdate(res, updates[i]), updates, i + 1)

SaveEditedFigures(res, updates) == ApplyUpdates(res, updates, 1)

\* handleSave up to its first await: the values of the render it closes over
HandleSave ==
    /\ Mounted
    /\ saveCount < MaxSaves
    /\ saveCount' = saveCount + 1
    /\ saves' = Append(saves, [figures |-> figures, srcs |-> editedSrcs,
                               adjs |-> adjustments, anns |-> annotations,
                               finalUpdates |-> <<>>, closed |-> FALSE,
                               canvas |-> NoPreview])
    /\ lastOp' = PlainOp
    /\ UNCHANGED <<docVars, sessionVars, asyncVars, lastOnSave>>
    /\ UNCHANGED viewVars
    /\ UNCHANGED <<watch, calc>>

BakedUpdate_FirstFigure(save, fig) ==
    [figureId |-> save.figures[1].id, pageIndex |-> fig.pageIndex,
     newSrc |-> Bake(SrcOf(save.srcs, fig), AdjOf(save.adjs, fig.id),
                     save.anns[fig.id])]

PreparedCanvas_Dirty(pixels) == pixels

\* tempCanvas after width and height are assigned and clearRect has run
PreparedCanvas(pixels) == NoPreview

BakeOn_KeepsFilter(pixels, src, adj, anns) ==
    Bake(src, IF pixels.kind = "baked" THEN pixels.adj ELSE adj, anns)

\* toDataURL of the run's tempCanvas, which holds `pixels` of the figure
\* baked before, after the steps of img.onload
BakeOn(pixels, src, adj, anns) ==
    LET under == PreparedCanvas(pixels)
    IN  IF under = NoPreview
        THEN Bake(src, adj, anns)
        ELSE [kind |-> "stacked", under |-> under, over |-> Bake(src, adj, anns)]

\* finalUpdates.push({figureId, pageIndex, newSrc: bakedSrc})
BakedUpdate(save, fig) ==
    [figureId |-> fig.id, pageIndex |-> fig.pageIndex,
     newSrc |-> BakeOn(save.canvas, SrcOf(save.srcs, fig),
                       AdjOf(save.adjs, fig.id), save.anns[fig.id])]

Pushed(save) ==
    Append(save.finalUpdates, BakedUpdate(save, save.figures[Len(save.finalUpdates) + 1]))

RemoveAt(s, k) == [i \in 1..(Len(s) - 1) |-> IF i < k THEN s[i] ELSE s[i + 1]]

\* img.onload of the figure the run waits for; after the last figure the
\* run calls onSave(finalUpdates) and onClose()
SaveImageLoads(k) ==
    /\ k \in 1..Len(saves)
    /\ LET save == saves[k]
           updates == Pushed(save)
       IN  IF Len(updates) < Len(save.figures)
           THEN /\ saves' = [saves EXCEPT ![k].finalUpdates = updates,
                                           ![k].canvas = updates[Len(updates)].newSrc]
                /\ UNCHANGED <<docVars, sessionVars, asyncVars, lastOnSave, lastOp,
                               viewVars>>
           ELSE /\ saves' = RemoveAt(saves, k)
                /\ results' = SaveEditedFigures(results, updates)
                /\ editingFigures' = NoSession
                /\ Unmount
                /\ lastOnSave' = [called |-> TRUE, updates |-> updates,
                                  figures |-> save.figures,
                                  afterClose |-> save.closed,
                                  read |-> [srcs |-> save.srcs, adjs |-> save.adjs,
                                            anns |-> save.anns]]
                /\ lastOp' = Op("onSave")
    /\ UNCHANGED <<saveCount, watch, calc>>

\* The image never loads: onload is the only handler, the promise stays
\* pending and the run never resumes
SaveImageFails(k) ==
    /\ k \in 1..Len(saves)
    /\ saves' = RemoveAt(saves, k)
    /\ lastOp' = lastOp
    /\ UNCHANGED <<docVars, sessionVars, asyncVars, saveCount, lastOnSave>>
    /\ UNCHANGED viewVars
    /\ UNCHANGED <<watch, calc>>

\* saveEditedFigures called on the converted document with a list of
\* updates, which name any figure on any page
InitSaveFigures ==
    /\ InitProgram
    /\ watch = FALSE
    /\ LET Updates == [figureId : FigIds, pageIndex : Pages,
                       newSrc : {AiResult("fig_1"), GraphResult("fig_2")}]
       IN  \E n \in 0..MaxUpdates : \E us \in [1..n -> Updates] :
              calc = [op |-> "saveEditedFigures", done |-> FALSE, updates |-> us]

\* onSave={saveEditedFigures}
OnSave ==
    /\ calc.op = "saveEditedFigures"
    /\ ~calc.done
    /\ results' = SaveEditedFigures(results, calc.updates)
    /\ editingFigures' = NoSession
    /\ calc' = [calc EXCEPT !.done = TRUE]
    /\ UNCHANGED <<sessionVars, asyncVars, saveVars, viewVars, lastOp, watch>>

SpecSaveFigures == InitSaveFigures /\ [][OnSave]_vars

----------------------------------------------------------------------------
(* App.cropImage: the region of the page raster cut out for a figure.      *)
(* Lengths are in thousandths of a pixel, so that x / 1000 * w is exact.   *)

Padding == 15
Milli == 1000

BoxCoords == {0, 100, 300, 990, 1000}          \* normalized coordinates
PageSizes == {<<1000, 1000>>, <<20, 10>>}      \* page raster width, height

\* Math.max(0, (min / 1000) * size - padding)
CropOrigin(min, size) == Max(0, min * size - Padding * Milli)

CropExtent_Unclamped(min, max, size, origin) ==
    (max - min) * size + 2 * Padding * Milli

\* Math.min(size - origin, ((max - min) / 1000) * size + padding * 2)
CropExtent(min, max, size, origin) ==
    Min(size * Milli - origin, (max - min) * size + 2 * Padding * Milli)

\* sx, sy, sWidth, sHeight of cropImage for box_2d = [ymin, xmin, ymax, xmax]
CropRegion(box, w, h) ==
    LET sx == CropOrigin(box[2], w)
        sy == CropOrigin(box[1], h)
    IN  [sx |-> sx, sy |-> sy,
         sWidth  |-> CropExtent(box[2], box[4], w, sx),
         sHeight |-> CropExtent(box[1], box[3], h, sy)]

InitCropImage ==
    /\ InitProgram
    /\ watch = FALSE
    /\ \E ymin \in BoxCoords, xmin \in BoxCoords, ymax \in BoxCoords,
          xmax \in BoxCoords, size \in PageSizes :
          calc = [op |-> "cropImage", done |-> FALSE,
                  box |-> <<ymin, xmin, ymax, xmax>>,
                  w |-> size[1], h |-> size[2]]

CropImage ==
    /\ calc.op = "cropImage"
    /\ ~calc.done
    /\ calc' = [op |-> "cropImage", done |-> TRUE, box |-> calc.box,
                w |-> calc.w, h |-> calc.h,
                region |-> CropRegion(calc.box, calc.w, calc.h)]
    /\ UNCHANGED <<docVars, sessionVars, asyncVars, saveVars, viewVars, lastOp,
                   watch>>

NextCropImage == CropImage

SpecCropImage == InitCropImage /\ [][NextCropImage]_vars

----------------------------------------------------------------------------
(* The adjustment pipeline of renderCanvas and handleSave on one pixel:    *)
(* ctx.filter with drawImage, then the channel and gamma pass over the     *)
(* image data.  A pixel is <<red, green, blue, alpha>> with values 0..255, *)
(* and the canvas keeps the four values as they are written.               *)

RedSamples == 0..255
GreenBlueSamples == {<<0, 255>>, <<200, 128>>}
AlphaSamples == {128, 255}
FilterSamples == {<<100, 100, 100>>, <<150, 50, 0>>}   \* brightness, contrast, saturate
RedGains == {0, 50, 100, 150, 200}
GreenBlueGains == {<<100, 100>>, <<200, 50>>}
GammaSamples == {1, 2}

\* Storing the number num / den in a Uint8ClampedArray or an 8-bit canvas:
\* the nearest integer, a tie going to the even one, held within 0..255
ToUint8Clamped(num, den) ==
    LET q == num \div den
        r == num % den
        n == IF 2 * r < den THEN q
             ELSE IF 2 * r > den THEN q + 1
             ELSE IF q % 2 = 0 THEN q ELSE q + 1
    IN  Max(0, Min(255, n))

\* brightness(p%): every colour channel times p / 100
BrightnessFilter(px, p) ==
    <<ToUint8Clamped(px[1] * p, 100), ToUint8Clamped(px[2] * p, 100),
      ToUint8Clamped(px[3] * p, 100), px[4]>>

\* contrast(p%): (v - 127.5) * p / 100 + 127.5 on every colour channel
ContrastFilter(px, p) ==
    <<ToUint8Clamped((2 * px[1] - 255) * p + 25500, 200),
      ToUint8Clamped((2 * px[2] - 255) * p + 25500, 200),
      ToUint8Clamped((2 * px[3] - 255) * p + 25500, 200), px[4]>>

\* saturate(p%): the saturation matrix with s = p / 100
SaturateFilter(px, p) ==
    <<ToUint8Clamped(px[1] * (21300 + 787 * p) + px[2] * (71500 - 715 * p)
                        + px[3] * (7200 - 72 * p), 100000),
      ToUint8Clamped(px[1] * (21300 - 213 * p) + px[2] * (71500 + 285 * p)
                        + px[3] * (7200 - 72 * p), 100000),
      ToUint8Clamped(px[1] * (21300 - 213 * p) + px[2] * (71500 - 715 * p)
                        + px[3] * (7200 + 928 * p), 100000),
      px[4]>>

\* ctx.filter = `brightness(..%) contrast(..%) saturate(..%)`; ctx.drawImage
CanvasFilter(px, adj) ==
    SaturateFilter(ContrastFilter(BrightnessFilter(px, adj.brightness),
                                  adj.contrast), adj.saturate)

NeedsPixelPass_Always(adj) == TRUE

\* adj.red !== 100 || adj.green !== 100 || adj.blue !== 100 || adj.gamma !== 1
NeedsPixelPass(adj) ==
    adj.red # 100 \/ adj.green # 100 \/ adj.blue # 100 \/ adj.gamma # 1

ChannelGain_Wraps(v, gain) == ((v * gain) \div 100) % 256

\* data[i] = Math.min(255, data[i] * (gain / 100))
ChannelGain(v, gain) == ToUint8Clamped(Min(25500, v * gain), 100)

\* data[i] = 255 * Math.pow(data[i] / 255, 1 / gamma), for the values of
\* gamma the model sets: gamma 2 gives the square root of 255 * v
GammaCurve(v, gamma) ==
    IF gamma = 1
    THEN v
    ELSE CHOOSE n \in 0..255 :
            /\ n = 0 \/ (2 * n - 1) * (2 * n - 1) <= 1020 * v
            /\ 1020 * v < (2 * n + 1) * (2 * n + 1)

\* The three gain assignments of one loop step; data[i+3] is not assigned
GainStep(px, adj) ==
    <<ChannelGain(px[1], adj.red), ChannelGain(px[2], adj.green),
      ChannelGain(px[3], adj.blue), px[4]>>

\* if (adj.gamma !== 1) { ... } of the same loop step
GammaStep(px, adj) ==
    IF adj.gamma # 1
    THEN <<GammaCurve(px[1], adj.gamma), GammaCurve(px[2], adj.gamma),
           GammaCurve(px[3], adj.gamma), px[4]>>
    ELSE px

\* The pixel after the filters and the conditional pass; readback tells
\* whether getImageData and putImageData ran
AdjustPixel(px, adj) ==
    LET filtered == CanvasFilter(px, adj)
    IN  IF NeedsPixelPass(adj)
        THEN [filtered |-> filtered, readback |-> TRUE,
              gained |-> GainStep(filtered, adj),
              out |-> GammaStep(GainStep(filtered, adj), adj)]
        ELSE [filtered |-> filtered, readback |-> FALSE,
              gained |-> filtered, out |-> filtered]

InitAdjust ==
    /\ InitProgram
    /\ watch = FALSE
    /\ \E r \in RedSamples, gb \in GreenBlueSamples, a \in AlphaSamples,
          f \in FilterSamples, rg \in RedGains, gbg \in GreenBlueGains,
          gamma \in GammaSamples :
          calc = [op |-> "adjust", done |-> FALSE,
                  pixel |-> <<r, gb[1], gb[2], a>>,
                  adj |-> [brightness |-> f[1], contrast |-> f[2],
                           saturate |-> f[3], red |-> rg, green |-> gbg[1],
                           blue |-> gbg[2], gamma |-> gamma]]

ApplyAdjustments ==
    /\ calc.op = "adjust"
    /\ ~calc.done
    /\ calc' = [op |-> "adjust", done |-> TRUE, pixel |-> calc.pixel,
                adj |-> calc.adj, res |-> AdjustPixel(calc.pixel, calc.adj)]
    /\ UNCHANGED <<docVars, sessionVars, asyncVars, saveVars, viewVars, lastOp,
                   watch>>

NextAdjust == ApplyAdjustments

SpecAdjust == InitAdjust /\ [][NextAdjust]_vars

----------------------------------------------------------------------------
(* geminiService.callGeminiWithRetry.  An error message and a response     *)
(* text are sequences of words; calc holds the loop variable i, the place  *)
(* the function is suspended at, and what it has done so far.              *)

DefaultRetries == 5

ErrorMessages == {<<"429", "Too", "Many", "Requests">>,
                  <<"Rate", "Limit", "exceeded">>,
                  <<"Internal", "error">>,
                  <<>>}                        \* <<>>: an error without message
ResponseTexts == {<<>>, <<"{}">>, <<"fence", "{}", "fence">>}   \* fence: a markdown code fence
EmptyResponseMsg == <<"Empty", "response", "from", "Gemini">>

\* error.message?.includes('429') ||
\* error.message?.toLowerCase().includes('rate limit')
IsRateLimit(message) ==
    LET lower(w) == IF w \in {"Rate", "RATE"} THEN "rate"
                    ELSE IF w \in {"Limit", "LIMIT"} THEN "limit" ELSE w
    IN  \/ \E k \in 1..Len(message) : message[k] = "429"
        \/ \E k \in 1..(Len(message) - 1) :
              lower(message[k]) = "rate" /\ lower(message[k + 1]) = "limit"

ShouldRetry_Always(isRateLimit, i, retries) == isRateLimit

\* isRateLimit && i < retries - 1
ShouldRetry(isRateLimit, i, retries) == isRateLimit /\ i < retries - 1

\* Math.pow(2, i + 1) * 1000
WaitTime(i) == (2 ^ (i + 1)) * 1000

\* The function after `for (let i = 0; i < retries; i++)` has tested i
LoopTest(c) ==
    IF c.i < c.retries
    THEN [c EXCEPT !.pc = "call"]
    ELSE [c EXCEPT !.pc = "thrown", !.result = <<"Max", "retries", "exceeded">>]

InitRetry ==
    /\ InitProgram
    /\ watch = FALSE
    /\ \E retries \in {0, 1, 3, DefaultRetries} :
          calc = LoopTest([op |-> "callGeminiWithRetry", retries |-> retries,
                           i |-> 0, pc |-> "start", log |-> <<>>,
                           waits |-> <<>>, result |-> <<>>])

\* await ai.models.generateContent(...) settles: it resolves with a response
\* text or rejects with an error; the catch block handles the rejection and
\* the Error thrown for an empty text alike
GenerateContentSettles ==
    /\ calc.op = "callGeminiWithRetry"
    /\ calc.pc = "call"
    /\ \E ok \in BOOLEAN :
       \E words \in IF ok THEN ResponseTexts ELSE ErrorMessages :
          LET log == Append(calc.log, [ok |-> ok, words |-> words])
              message == IF ok THEN EmptyResponseMsg ELSE words
              cleanJson == IF words # <<>> /\ words[1] = "fence"
                           THEN SubSeq(words, 2, Len(words) - 1) ELSE words
          IN  calc' =
                IF ok /\ words # <<>>
                THEN [calc EXCEPT !.pc = "returned", !.log = log,
                                  !.result = cleanJson]
                ELSE IF ShouldRetry(IsRateLimit(message), calc.i, calc.retries)
                THEN [calc EXCEPT !.pc = "sleep", !.log = log,
                                  !.waits = Append(@, WaitTime(calc.i))]
                ELSE [calc EXCEPT !.pc = "thrown", !.log = log,
                                  !.result = message]
    /\ UNCHANGED <<docVars, sessionVars, asyncVars, saveVars, viewVars, lastOp,
                   watch>>

\* await sleep(waitTime) resolves; continue
SleepResolves ==
    /\ calc.op = "callGeminiWithRetry"
    /\ calc.pc = "sleep"
    /\ calc' = LoopTest([calc EXCEPT !.i = @ + 1])
    /\ UNCHANGED <<docVars, sessionVars, asyncVars, saveVars, viewVars, lastOp,
                   watch>>

\* The pending call settles and the timer fires
SpecRetry ==
    /\ InitRetry
    /\ [][GenerateContentSettles \/ SleepResolves]_vars
    /\ WF_vars(GenerateContentSettles)
    /\ WF_vars(SleepResolves)

----------------------------------------------------------------------------
(* Specifications.  Each one explores the handlers of one part of the      *)
(* program over the whole state; the other handlers do not run in it.      *)

(* Spec: the synchronous handlers of the editing session *)
Next ==
    \/ \E p \in Pages : \E f \in SeqToSet(PageFigIds(p)) : HandleEditFigure(p, f)
    \/ \E p \in Pages : HandleBatchEdit(p)
    \/ OnClose
    \/ Previous
    \/ NextFigure
    \/ \E idx \in 0..(Len(figures) - 1) : JumpTo(idx)
    \/ \E m \in ModesOfSpec : SetMode(m)
    \/ \E key \in AdjKeys : \E value \in AdjValues(key) : UpdateAdjustment(key, value)
    \/ SwitchToSource(currentFigure.originalSrc)
    \/ SwitchToSource(currentFigure.src)
    \/ ApplyFiltersToAll
    \/ \E pt \in ClickPoints : HandleCanvasClick(pt)
    \/ \E u \in AnnUpdates : UpdateSelectedAnnotation(u)
    \/ DeleteSelectedAnnotation

Spec == Init /\ [][Next]_vars

(* SpecAI: a batch session with AI recreation and graph generation *)
NextAI ==
    \/ HandleBatchEdit(0)
    \/ OnClose
    \/ Previous
    \/ NextFigure
    \/ \E value \in AdjValues("brightness") : UpdateAdjustment("brightness", value)
    \/ \E all \in BOOLEAN : HandleMagicRecreate(all)
    \/ RecreateFigureResolves
    \/ RecreateFigureRejects
    \/ \E e \in Equations : HandleGenerateGraph(e)
    \/ GenerateGraphResolves
    \/ GenerateGraphRejects

SpecAI == Init /\ [][NextAI]_vars

(* SpecAIText: AI recreation and graph generation on an annotated figure *)
NextAIText ==
    \/ HandleEditFigure(0, "fig_1")
    \/ OnClose
    \/ SetMode("text")
    \/ \E pt \in ClickPoints : HandleCanvasClick(pt)
    \/ UpdateAdjustment("brightness", 150)
    \/ HandleMagicRecreate(FALSE)
    \/ RecreateFigureResolves
    \/ RecreateFigureRejects
    \/ HandleGenerateGraph("y = x^2")
    \/ GenerateGraphResolves
    \/ GenerateGraphRejects

SpecAIText == Init /\ [][NextAIText]_vars

(* SpecBake: handleSave runs over a batch with annotations and adjustments *)
NextBake ==
    \/ HandleBatchEdit(0)
    \/ NextFigure
    \/ SetMode("text")
    \/ HandleCanvasClick(<<50, 30>>)
    \/ UpdateSelectedAnnotation([text |-> "A"])
    \/ UpdateAdjustment("brightness", 150)
    \/ HandleSave
    \/ \E k \in 1..MaxSaves : SaveImageLoads(k)

SpecBake == Init /\ [][NextBake]_vars

(* SpecSave: opening, editing, saving and closing over the document model *)
NextSave ==
    \/ HandleEditFigure(1, "fig_3")
    \/ HandleBatchEdit(0)
    \/ OnClose
    \/ NextFigure
    \/ UpdateAdjustment("brightness", 150)
    \/ HandleSave
    \/ \E k \in 1..MaxSaves : SaveImageLoads(k)
    \/ \E k \in 1..MaxSaves : SaveImageFails(k)

SpecSave == Init /\ [][NextSave]_vars

\* The program with the preview canvas followed
InitCanvas ==
    /\ InitProgram
    /\ watch = TRUE
    /\ calc = NoCalc

(* SpecDraw: a batch session with the draw tool and the preview canvas *)
NextDraw ==
    \/ HandleBatchEdit(0)
    \/ NextFigure
    \/ \E m \in {"view", "draw"} : SetMode(m)
    \/ UpdateAdjustment("brightness", 150)
    \/ StartDrawing
    \/ DrawMove
    \/ StopDrawing
    \/ \E r \in renders : RenderImageLoads(r)

SpecDraw == InitCanvas /\ [][NextDraw]_vars

(* SpecCanvas: a session with the crop tool and the preview canvas *)
CanvasModes == {"view", "crop"}

NextCanvas ==
    \/ HandleEditFigure(0, "fig_1")
    \/ OnClose
    \/ \E m \in CanvasModes : SetMode(m)
    \/ UpdateAdjustment("brightness", 150)
    \/ \E pt \in CropPoints : HandleCropStart(pt)
    \/ \E pt \in CropPoints : HandleCropMove(pt)
    \/ HandleCropEnd
    \/ ExecuteCrop
    \/ \E r \in renders : RenderImageLoads(r)
    \/ \E r \in renders : RenderImageFails(r)

SpecCanvas == InitCanvas /\ [][NextCanvas]_vars

----------------------------------------------------------------------------
(* Properties of the annotation, source and adjustment handlers (Spec) *)

\* The trash button is rendered in text mode while an annotation is selected
DeleteOffered == Mounted /\ mode = "text" /\ selectedAnnotationId # NoSelection

\* C1 (as stated): deleteSelectedAnnotation invoked while an annotation is
\* selected removes exactly one entry from the active figure's annotation
\* list and clears the selection, whatever add, select, navigate and delete
\* steps came before.
C1_DeleteRemovesExactlyOne ==
    [][(DeleteOffered /\ DeleteSelectedAnnotation) =>
          /\ Len(annotations'[currentFigure.id]) = Len(currentAnnotations) - 1
          /\ selectedAnnotationId' = NoSelection]_vars

\* C2: switchToSource on the active figure leaves its adjustments at identity
\* (100 for the six percentages, gamma 1), keeps its annotations, and leaves
\* every other figure's working raster, adjustments and annotations as they
\* were.
C2_SwitchToSourceResetsActiveOnly ==
    [][(/\ Mounted
        /\ \E s \in {currentFigure.originalSrc, currentFigure.src} :
              SwitchToSource(s)) =>
          /\ adjustments'[currentFigure.id] =
                [brightness |-> 100, contrast |-> 100, saturate |-> 100,
                 red |-> 100, green |-> 100, blue |-> 100, gamma |-> 1]
          /\ annotations'[currentFigure.id] = currentAnnotations
          /\ \A f \in FigIds \ {currentFigure.id} :
                /\ editedSrcs'[f] = editedSrcs[f]
                /\ adjustments'[f] = adjustments[f]
                /\ annotations'[f] = annotations[f]]_vars

\* A source switch has acted on a figure that carries an annotation, next to
\* another figure whose adjustments are set and not identity
C2_Witness ==
    /\ Mounted
    /\ editedSrcs[currentFigure.id] = currentFigure.originalSrc
    /\ adjustments[currentFigure.id] = Identity
    /\ currentAnnotations # <<>>
    /\ \E f \in FigIds \ {currentFigure.id} :
          adjustments[f] # NoAdj /\ adjustments[f] # Identity

\* C3: after applyFiltersToAll every figure of the batch has, field by field,
\* the parameters the active figure had when the handler was invoked, the
\* identity default included when the active figure had no entry.
C3_ApplyFiltersToAllCopies ==
    [][ApplyFiltersToAll =>
          \A i \in 1..Len(figures) :
             adjustments'[figures[i].id] =
                (IF adjustments[currentFigure.id] = NoAdj
                 THEN [brightness |-> 100, contrast |-> 100, saturate |-> 100,
                       red |-> 100, green |-> 100, blue |-> 100, gamma |-> 1]
                 ELSE adjustments[currentFigure.id])]_vars

\* The handler has just copied non-identity parameters over a batch of two
C3_Witness ==
    /\ Mounted
    /\ lastOp.alert = AppliedMsg
    /\ Len(figures) = 2
    /\ currentAdj # Identity
    /\ \A i \in 1..Len(figures) : adjustments[figures[i].id] = currentAdj

\* C13: the active figure index stays within 0..N-1 under previous, next and
\* jump-to-index; previous at index 0 and next at index N-1 leave it unchanged.
C13_NavigationClamped ==
    /\ [](Mounted => currentIndex \in 0..(Len(figures) - 1))
    /\ [][/\ (Previous /\ currentIndex = 0) => currentIndex' = 0
          /\ (NextFigure /\ currentIndex = Len(figures) - 1) =>
                currentIndex' = Len(figures) - 1
          /\ \A idx \in 0..(Len(figures) - 1) : JumpTo(idx) => currentIndex' = idx]_vars

\* The last figure of a batch of two is active
C13_Witness ==
    /\ Mounted
    /\ Len(figures) = 2
    /\ currentIndex = Len(figures) - 1

----------------------------------------------------------------------------
(* Properties of the AI handlers (SpecAI) *)

\* C5 (as stated): when a recreateFigure call of a recreation fails, the error
\* reported to the user references the figure whose recreation failed.
C5_FailureNamesFigure ==
    lastOp.name = "recreateRejected" => Mentions(lastOp.alert, lastOp.fig)

\* C6: a rejected recreateFigure or generateGraph call changes no figure's
\* working raster and no figure's adjustments, the failure is reported, and
\* the busy flag of the editor that issued the call is false afterwards.
C6_RejectionLeavesSession ==
    [][/\ RecreateFigureRejects =>
            /\ editedSrcs' = editedSrcs
            /\ adjustments' = adjustments
            /\ lastOp'.alert = RecreateFailedMsg
            /\ recreateCall.mounted => ~isRecreating'
       /\ GenerateGraphRejects =>
            /\ editedSrcs' = editedSrcs
            /\ adjustments' = adjustments
            /\ lastOp'.alert = GraphFailedMsg
            /\ graphCall.mounted => ~isGeneratingGraph']_vars

\* A batch recreation has failed on its second figure in a session that had
\* an adjustment set, and the recreate buttons are enabled again
C6_Witness ==
    /\ Mounted
    /\ lastOp.name = "recreateRejected"
    /\ lastOp.fig = "fig_2"
    /\ ~isRecreating
    /\ editedSrcs["fig_1"] = NoSrc
    /\ \E f \in FigIds : adjustments[f] # NoAdj /\ adjustments[f] # Identity

\* C7: the raster a call returns is written, with the adjustment reset, to
\* the entry of the figure the call was issued for; the figure that is active
\* when the call completes receives it only when it is that figure.
C7_ResultRoutedToIssuer ==
    [][/\ (GenerateGraphResolves /\ graphCall.mounted) =>
            /\ editedSrcs'[graphCall.fig] = GraphResult(graphCall.fig)
            /\ adjustments'[graphCall.fig] = Identity
            /\ \A f \in FigIds \ {graphCall.fig} :
                  /\ editedSrcs'[f] = editedSrcs[f]
                  /\ adjustments'[f] = adjustments[f]
       /\ (/\ RecreateFigureResolves
           /\ recreateCall.mounted
           /\ recreateCall.i = Len(recreateCall.targets)) =>
            \A f \in FigIds :
               IF f \in TargetIds(recreateCall)
               THEN /\ editedSrcs'[f] = AiResult(f)
                    /\ adjustments'[f] = Identity
               ELSE \A t \in TargetIds(recreateCall) :
                       editedSrcs'[f] # AiResult(t)]_vars

\* A graph call has completed while another figure was active and its raster
\* sits in the entry of the figure it was issued for
C7_Witness ==
    /\ Mounted
    /\ lastOp.name = "graphResolved"
    /\ currentFigure.id # lastOp.fig
    /\ editedSrcs[lastOp.fig] = GraphResult(lastOp.fig)
    /\ editedSrcs[currentFigure.id] = NoSrc

\* C14: when recreateFigure or generateGraph succeeds for a figure, the
\* figure's working raster becomes the returned raster, its adjustments are
\* identity and its annotation list is the one it had.
C14_SuccessResetsAdjustmentsOnly ==
    [][/\ (GenerateGraphResolves /\ graphCall.mounted) =>
            /\ editedSrcs'[graphCall.fig] = GraphResult(graphCall.fig)
            /\ adjustments'[graphCall.fig] =
                  [brightness |-> 100, contrast |-> 100, saturate |-> 100,
                   red |-> 100, green |-> 100, blue |-> 100, gamma |-> 1]
            /\ annotations'[graphCall.fig] = annotations[graphCall.fig]
       /\ (/\ RecreateFigureResolves
           /\ recreateCall.mounted
           /\ recreateCall.i = Len(recreateCall.targets)) =>
            \A t \in TargetIds(recreateCall) :
               /\ editedSrcs'[t] = AiResult(t)
               /\ adjustments'[t] =
                     [brightness |-> 100, contrast |-> 100, saturate |-> 100,
                      red |-> 100, green |-> 100, blue |-> 100, gamma |-> 1]
               /\ annotations'[t] = annotations[t]]_vars

\* A recreation has succeeded on a figure that carries an annotation
C14_Witness ==
    /\ Mounted
    /\ lastOp.name = "recreateResolved"
    /\ editedSrcs[lastOp.fig] = AiResult(lastOp.fig)
    /\ adjustments[lastOp.fig] = Identity
    /\ annotations[lastOp.fig] # <<>>

----------------------------------------------------------------------------
(* Properties of saving and of the document model (SpecSave) *)

\* C4: whenever handleSave invokes onSave, the list has exactly one entry per
\* figure of the session, in the order of the figures list, each with that
\* figure's id and pageIndex; a run whose image never loads invokes nothing.
C4_OnSaveListComplete ==
    /\ [](lastOnSave.called =>
            /\ Len(lastOnSave.updates) = Len(lastOnSave.figures)
            /\ \A i \in 1..Len(lastOnSave.figures) :
                  /\ lastOnSave.updates[i].figureId = lastOnSave.figures[i].id
                  /\ lastOnSave.updates[i].pageIndex = lastOnSave.figures[i].pageIndex)
    /\ [][\A k \in 1..MaxSaves :
             SaveImageFails(k) => lastOnSave' = lastOnSave /\ results' = results]_vars

\* onSave has been invoked for a batch of two figures, one of them baked
\* with a changed brightness
C4_Witness ==
    /\ lastOnSave.called
    /\ Len(lastOnSave.updates) = 2
    /\ lastOnSave.updates[2].newSrc.kind = "baked"

\* C8 (as stated): once the session has been closed with the X button, no
\* run of handleSave that the session had started changes a page's html or a
\* figure's currentSrc.
C8_ClosedSessionWritesNothing ==
    [][\A k \in 1..MaxSaves :
          (SaveImageLoads(k) /\ saves[k].closed) => results' = results]_vars

\* C18 (as stated): an image that fails to load for one figure does not stall
\* the run of handleSave: after the failure the run is still in progress, to
\* go on with the figures after it, or it has handed its list to onSave.
C18_DecodeFailureDoesNotStall ==
    [][\A k \in 1..MaxSaves :
          SaveImageFails(k) =>
             \/ Len(saves') = Len(saves)
             \/ lastOnSave' # lastOnSave]_vars

\* C9: the originalSrc of every figure of the document model is the raster
\* cropped at page conversion, whatever was opened, edited, saved and closed.
C9_OriginalSrcImmutable ==
    \A p \in Pages :
       \A i \in 1..Len(results[p].figures) :
          results[p].figures[i].originalSrc = Crop(results[p].figures[i].id)

\* A save has replaced the currentSrc of a figure by a baked raster
C9_Witness ==
    /\ lastOnSave.called
    /\ \E p \in Pages :
          \E i \in 1..Len(results[p].figures) :
             /\ results[p].figures[i].currentSrc.kind = "baked"
             /\ results[p].figures[i].currentSrc # results[p].figures[i].originalSrc

\* C10 (as stated): the raster the editor offers as the "AI Digitized" source
\* of a figure is the one the figure had as currentSrc when it was created.
C10_AiSourceImmutable ==
    Mounted =>
       \A i \in 1..Len(figures) :
          figures[i].src = FigureResult(figures[i].id).currentSrc

----------------------------------------------------------------------------
(* Properties of the crop tool and of the preview canvas (SpecCanvas) *)

\* C11 (as stated): confirming a crop whose rectangle has zero width or zero
\* height is a no-op: the working rasters, the crop rectangle and the tool
\* (mode stays crop) are unchanged and no empty raster is stored.
C11_DegenerateCropRejected ==
    [][(ExecuteCrop /\ (cropRect.w = 0 \/ cropRect.h = 0)) =>
          /\ editedSrcs' = editedSrcs
          /\ cropRect' = cropRect
          /\ mode' = "crop"
          /\ \A f \in FigIds : editedSrcs'[f] # EmptyRaster]_vars

----------------------------------------------------------------------------
(* Properties of cropImage (SpecCropImage) *)

\* C12: for every box with components in 0..1000 and every page raster of
\* width w and height h, the region cropImage computes has 0 <= sx, 0 <= sy,
\* sx + sWidth <= w and sy + sHeight <= h; for box [100,100,300,300] on a
\* 1000 x 1000 raster it is sx = 85, sy = 85, sWidth = 230, sHeight = 230.
C12_CropRegionInsidePage ==
    (calc.op = "cropImage" /\ calc.done) =>
       /\ 0 <= calc.region.sx
       /\ 0 <= calc.region.sy
       /\ calc.region.sx + calc.region.sWidth <= calc.w * Milli
       /\ calc.region.sy + calc.region.sHeight <= calc.h * Milli
       /\ (calc.box = <<100, 100, 300, 300>> /\ calc.w = 1000 /\ calc.h = 1000) =>
             calc.region = [sx |-> 85000, sy |-> 85000,
                            sWidth |-> 230000, sHeight |-> 230000]

\* cropImage has computed the region of the scenario box, and the padded box
\* of the scenario lies inside the page
C12_Witness ==
    /\ calc.op = "cropImage"
    /\ calc.done
    /\ calc.box = <<100, 100, 300, 300>>
    /\ calc.w = 1000
    /\ calc.region.sWidth = 230 * Milli

----------------------------------------------------------------------------
(* Properties of baking (SpecBake) *)

\* The raster a bake yields for figure i of a run, from what the run read
BakeOfRead(figs, read, i) ==
    Bake(SrcOf(read.srcs, figs[i]), AdjOf(read.adjs, figs[i].id),
         read.anns[figs[i].id])

----------------------------------------------------------------------------
(* Properties of the adjustment pipeline (SpecAdjust) *)

Adjusted == calc.op = "adjust" /\ calc.done

\* C16: with identity adjustments (the six percentages 100, gamma 1) the
\* pipeline gives back the pixel it was given, alpha included, and the
\* per-pixel pass with its readback of the image data does not run.
C16_IdentityIsNoOp ==
    (Adjusted /\ calc.adj = Identity) =>
        /\ calc.res.out = calc.pixel
        /\ ~calc.res.readback

\* A half-transparent coloured pixel has gone through the pipeline with
\* identity adjustments
C16_Witness ==
    /\ Adjusted
    /\ calc.adj = Identity
    /\ calc.pixel = <<37, 200, 128, 128>>

\* The gain of colour channel c
GainOf(adj, c) == IF c = 1 THEN adj.red ELSE IF c = 2 THEN adj.green ELSE adj.blue

\* C17: for every channel value 0..255 and every gain 0..200 the gain step
\* stores min(255, value * gain / 100) to the nearest integer: the stored
\* value never exceeds 255, never wraps around (it is no smaller than the
\* input for a gain of 100 or more, no larger for a gain of 100 or less),
\* and alpha is left as it was.
C17_GainClamps ==
    (Adjusted /\ calc.res.readback) =>
        /\ \A c \in 1..3 :
              LET v == calc.res.filtered[c]
                  g == GainOf(calc.adj, c)
                  w == calc.res.gained[c]
              IN  /\ w \in 0..255
                  /\ 100 * w - Min(25500, v * g) \in -50..50
                  /\ g >= 100 => w >= v
                  /\ g <= 100 => w <= v
        /\ calc.res.gained[4] = calc.pixel[4]
        /\ calc.res.out[4] = calc.pixel[4]

\* Red gain 200 on a red value above 127, in a half-transparent pixel: the
\* product exceeds 255 and the stored value is 255
C17_Witness ==
    /\ Adjusted
    /\ calc.adj.red = 200
    /\ calc.res.readback
    /\ calc.res.filtered[1] = 200
    /\ calc.res.gained[1] = 255
    /\ calc.pixel[4] = 128

----------------------------------------------------------------------------
(* Properties of the preview canvas (SpecCanvas) *)

\* C19 (as stated): once no image load is pending, the preview canvas shows
\* the rendering of the latest session state: the working raster of the
\* active figure through its adjustments, with its annotations and the box of
\* the selected one.  A run started for an older state never draws last.
C19_PreviewShowsLatestState ==
    (Mounted /\ watch /\ renders = {} /\ Decodable(Snapshot.src)) =>
        preview = Drawn(Snapshot)

----------------------------------------------------------------------------
(* Properties of rejected input (Spec, SpecAI) *)

\* handleGenerateGraph with empty or whitespace-only equations raises the
\* alert 'Please enter at least one equation.', starts no call and changes
\* no session state (SpecAI)
EmptyEquationsRejected ==
    [][\A e \in Equations :
          (HandleGenerateGraph(e) /\ Trim(e) = "") =>
             /\ lastOp'.alert = NoEquationMsg
             /\ UNCHANGED <<sessionVars, asyncVars>>]_vars

----------------------------------------------------------------------------
(* Properties of a confirmed crop (SpecCanvas) *)

\* C21 (as stated): executeCrop on a rectangle of non-zero width and height
\* writes the region cut out of the canvas as the active figure's working
\* raster, clears cropRect, sets the mode to view, and resets that figure's
\* adjustments to identity.
C21_CropResetsAdjustments ==
    [][(/\ Mounted
        /\ cropRect.set
        /\ cropRect # NoCrop
        /\ ExecuteCrop
        /\ cropRect.w # 0
        /\ cropRect.h # 0) =>
          /\ editedSrcs'[currentFigure.id] = CropResult(cropRect, preview)
          /\ editedSrcs'[currentFigure.id].kind = "cropped"
          /\ cropRect' = NoCrop
          /\ mode' = "view"
          /\ AdjOf(adjustments', currentFigure.id) = Identity]_vars

----------------------------------------------------------------------------
(* Properties of the draw tool and of canvas captures (SpecDraw) *)

\* C22 (as stated): a pointer-up, pointer-leave or touch-end on the canvas
\* while the draw tool is not active, or while no stroke was started, leaves
\* the working raster of every figure of the session (its editedSrcs entry,
\* or its src when it has none) as it was.
C22_IdlePointerUpKeepsRasters ==
    [][(/\ Mounted
        /\ mode # "draw" \/ ~isDrawing
        /\ StopDrawing) =>
          \A i \in 1..Len(figures) :
             SrcOf(editedSrcs', figures[i]) = SrcOf(editedSrcs, figures[i])]_vars

----------------------------------------------------------------------------
(* Properties of the selection (Spec) *)

\* C23 (as stated): while the editor is open, selectedAnnotationId is null
\* or the id of an annotation in the annotation list of the active figure.
C23_SelectionScopedToActiveFigure ==
    Mounted =>
       \/ selectedAnnotationId = NoSelection
       \/ \E i \in 1..Len(currentAnnotations) :
             currentAnnotations[i].id = selectedAnnotationId

----------------------------------------------------------------------------
(* Properties of the drawing surface of handleSave (SpecBake) *)

\* C24: the raster a run of handleSave bakes for a figure is the raster that
\* figure's own working raster, adjustments and annotations give on a fresh
\* canvas, whatever the run's tempCanvas held from the figure baked before,
\* and a bake step of one run changes nothing of another run in progress.
C24_BakeIsolated ==
    [][\A k \in 1..MaxSaves :
          SaveImageLoads(k) =>
             LET save == saves[k]
                 i == Len(save.finalUpdates) + 1
                 fig == save.figures[i]
                 baked == IF i < Len(save.figures)
                          THEN saves'[k].finalUpdates[i]
                          ELSE lastOnSave'.updates[i]
             IN  /\ baked.newSrc = BakeOn(NoPreview, SrcOf(save.srcs, fig),
                                          AdjOf(save.adjs, fig.id),
                                          save.anns[fig.id])
                 /\ \A j \in 1..Len(saves) :
                       /\ j < k => saves'[j] = saves[j]
                       /\ j > k => saves'[IF i < Len(save.figures) THEN j ELSE j - 1]
                                      = saves[j]]_vars

\* A run has baked fig_2, which has no adjustments and no annotations, on the
\* tempCanvas that held fig_1 baked with changed adjustments, while a second
\* run is in progress
C24_Witness ==
    /\ lastOnSave.called
    /\ Len(lastOnSave.updates) = 2
    /\ lastOnSave.updates[1].newSrc.kind = "baked"
    /\ lastOnSave.updates[1].newSrc.adj # Identity
    /\ lastOnSave.updates[2].newSrc = Crop("fig_2")
    /\ Len(saves) = 1
    /\ Len(saves[1].finalUpdates) = 1

----------------------------------------------------------------------------
(* Properties of saveEditedFigures (SpecSaveFigures) *)

\* C25: after saveEditedFigures, a figure named by an update with its id and
\* its page has the newSrc of the last such update as currentSrc and as the
\* src of its image in the page's html; every other figure and image is as it
\* was, no figure is added or removed, and id and originalSrc never change.
\* An update whose figureId is not on its page changes nothing.
C25_UpdatesSplicedByIdAndPage ==
    (calc.op = "saveEditedFigures" /\ calc.done) =>
        \A p \in Pages :
           /\ Len(results[p].figures) = Len(InitResults[p].figures)
           /\ DOMAIN results[p].html = DOMAIN InitResults[p].html
           /\ \A i \in 1..Len(results[p].figures) :
                 LET was == InitResults[p].figures[i]
                     now == results[p].figures[i]
                     hits == {n \in 1..Len(calc.updates) :
                                 /\ calc.updates[n].figureId = was.id
                                 /\ calc.updates[n].pageIndex = p}
                     last == CHOOSE n \in hits : \A m \in hits : m <= n
                 IN  /\ now.id = was.id
                     /\ now.originalSrc = was.originalSrc
                     /\ now.currentSrc = IF hits = {} THEN was.currentSrc
                                         ELSE calc.updates[last].newSrc
                     /\ results[p].html[was.id] =
                           IF hits = {} THEN InitResults[p].html[was.id]
                           ELSE calc.updates[last].newSrc

\* saveEditedFigures has applied an update for fig_1 on page 0 and an update
\* that names fig_2 on page 1, where it is not
C25_Witness ==
    /\ calc.op = "saveEditedFigures"
    /\ calc.done
    /\ Len(calc.updates) = 2
    /\ calc.updates[1] = [figureId |-> "fig_1", pageIndex |-> 0,
                          newSrc |-> AiResult("fig_1")]
    /\ calc.updates[2] = [figureId |-> "fig_2", pageIndex |-> 1,
                          newSrc |-> GraphResult("fig_2")]
    /\ results[0].figures[1].currentSrc = AiResult("fig_1")
    /\ results[0].figures[2].currentSrc = Crop("fig_2")

----------------------------------------------------------------------------
(* Properties of edits made during an AI recreation (SpecAI) *)

\* C26 (as stated): when handleMagicRecreate completes, every figure that is
\* not a target of the recreation has the working raster and the adjustments
\* it had just before the completion, edits made during the call included.
C26_EditsDuringRecreateKept ==
    [][(/\ recreateCall.active
        /\ recreateCall.mounted
        /\ RecreateFigureResolves) =>
          \A f \in FigIds \ TargetIds(recreateCall) :
             /\ editedSrcs'[f] = editedSrcs[f]
             /\ AdjOf(adjustments', f) = AdjOf(adjustments, f)]_vars

----------------------------------------------------------------------------
(* Properties of the crop coordinates (SpecCanvas) *)

\* C27 (as stated): the region a confirmed crop cuts out starts at the canvas
\* pixel that was under the pointer at pointer-down, that is at (pointer
\* position minus the displayed top-left of the canvas) times the canvas
\* scale, and its size is the drag extent times the canvas scale.
C27_CropStartsUnderPointer ==
    [][(/\ Mounted
        /\ cropRect.set
        /\ ExecuteCrop
        /\ cropRect.w # 0
        /\ cropRect.h # 0) =>
          LET region == editedSrcs'[currentFigure.id]
          IN  /\ region.sx = (cropRect.x - CanvasOffset[1]) * CanvasScale
              /\ region.sy = (cropRect.y - CanvasOffset[2]) * CanvasScale
              /\ region.sw = cropRect.w * CanvasScale
              /\ region.sh = cropRect.h * CanvasScale]_vars

----------------------------------------------------------------------------
(* Properties of a committed stroke (SpecDraw) *)

\* C28 (as stated): when the working raster of the active figure is the
\* capture of an inked canvas, the adjustments are those the canvas was drawn
\* with, and the re-render has completed, the canvas shows the pixels of that
\* capture: the adjustments are not applied to them a second time.
C28_FiltersAppliedOnce ==
    (/\ Mounted
     /\ renders = {}
     /\ Snapshot.src.kind = "capture"
     /\ Snapshot.src.of.kind = "inked"
     /\ Snapshot.src.of.of.kind = "drawn"
     /\ Snapshot.src.of.of.adj = Snapshot.adj
     /\ preview = Drawn(Snapshot)) =>
        Capture(preview) = Snapshot.src

----------------------------------------------------------------------------
(* Properties of the origin of working rasters (SpecDraw) *)

\* The figure whose pixels a raster or a canvas content is derived from
RECURSIVE FigureOf(_)
FigureOf(x) ==
    IF x.kind \in {"crop", "ai", "graph"} THEN x.fig
    ELSE IF x.kind = "drawn" THEN FigureOf(x.src)
    ELSE IF x.kind \in {"capture", "inked", "cropped"} THEN FigureOf(x.of)
    ELSE NoFig

\* C29 (as stated): the editedSrcs entry of a figure is derived from that
\* figure's own pixels: no entry holds a capture of the canvas taken while
\* the canvas showed another figure.
C29_RasterFromOwnFigure ==
    \A f \in FigIds :
       editedSrcs[f] # NoSrc => FigureOf(editedSrcs[f]) \in {f, NoFig}

----------------------------------------------------------------------------
(* Properties of callGeminiWithRetry (SpecRetry) *)

\* C30: callGeminiWithRetry ends, with at most `retries` calls of the model.
\* It returns the text of the first attempt that gave one; an error that is
\* not a rate-limit error is rethrown at once; a rate-limit error on attempt
\* i < retries - 1 is followed by a wait of 2^(i+1) seconds and the next
\* attempt; a rate-limit error on the last attempt is rethrown.
C30_RetryTerminates ==
    /\ <>(calc.pc \in {"returned", "thrown"})
    /\ [](LET n == Len(calc.log)
              \* the error the catch block sees for attempt k, <<"none">>
              \* when the attempt gave a response text
              FailureOf(c, k) ==
                 IF ~c.log[k].ok THEN c.log[k].words
                 ELSE IF c.log[k].words = <<>> THEN EmptyResponseMsg
                 ELSE <<"none">>
          IN  /\ n <= calc.retries
              /\ \/ n = (IF calc.pc = "call" THEN calc.i ELSE calc.i + 1)
                 \/ (calc.retries = 0 /\ n = 0)
              /\ \A k \in 1..(n - 1) : IsRateLimit(FailureOf(calc, k))
              /\ Len(calc.waits) = IF calc.pc \in {"call", "sleep"} THEN n
                                    ELSE Max(n - 1, 0)
              /\ \A k \in 1..Len(calc.waits) :
                    calc.waits[k] = 1000 * (2 ^ k)
              /\ calc.pc = "sleep" =>
                    IsRateLimit(FailureOf(calc, n)) /\ n < calc.retries
              /\ calc.pc = "returned" =>
                    /\ calc.log[n].ok
                    /\ calc.log[n].words # <<>>
                    /\ calc.result = <<"{}">>
              /\ (calc.pc = "thrown" /\ calc.retries > 0) =>
                    /\ calc.result = FailureOf(calc, n)
                    /\ calc.result # <<"none">>
                    /\ ~IsRateLimit(calc.result) \/ n = calc.retries)

\* With the default of 5 retries, four rate-limit errors were each followed
\* by a wait, of 2, 4, 8 and 16 seconds, and the fifth attempt failed with a
\* rate-limit error, which was rethrown
C30_Witness ==
    /\ calc.op = "callGeminiWithRetry"
    /\ calc.retries = DefaultRetries
    /\ calc.pc = "thrown"
    /\ Len(calc.log) = 5
    /\ calc.waits = <<2000, 4000, 8000, 16000>>
    /\ calc.result = <<"Rate", "Limit", "exceeded">>

====
